---- MODULE Spec2Model ----
(***************************************************************************)
(* Model of ccid_serial.c: the serial transport of a GemPC Twin reader.    *)
(*                                                                         *)
(* The program is single threaded.  ReadSerial blocks inside ReadChunk,    *)
(* where the environment decides what select() and read() return; the      *)
(* model therefore gives the call a position (pc, reading) and one action  *)
(* per get_bytes call or ReadChunk loop iteration.  WriteSerial issues one *)
(* write() and is a single action.                                         *)
(***************************************************************************)
EXTENDS Integers, Sequences, FiniteSets, TLC

(***************************************************************************)
(* Protocol constants (ccid_serial.c:45-50) and status codes.              *)
(***************************************************************************)
SYNC ==
    3
CTRL_ACK ==
    6
CTRL_NAK ==
    21
RDR_to_PC_NotifySlotChange ==
    80
CARD_ABSENT ==
    2
CARD_PRESENT ==
    3
\* #define GEMPCTWIN_MAXBUF (271 +2 +1) * 2 : every use in the file is either
\* an array size or "GEMPCTWIN_MAXBUF-3", where the unparenthesised macro
\* still evaluates to 548 and 548-3.
GEMPCTWIN_MAXBUF ==
    (271 + 2 + 1) * 2
\* the first byte value taken as a time request (c >= 0x80)
TIME_REQUEST ==
    128

STATUS_SUCCESS == "STATUS_SUCCESS"
STATUS_UNSUCCESSFUL == "STATUS_UNSUCCESSFUL"
STATUS_COMM_ERROR == "STATUS_COMM_ERROR"

(***************************************************************************)
(* Bounds of the model.                                                    *)
(***************************************************************************)
\* number of reader slots of serialDevice[]
CCID_DRIVER_MAX_READERS ==
    2
\* device frames carry payloads of 0..MaxPayload bytes
MaxPayload ==
    2
\* a read() returns 1..MaxRead bytes, or everything that fits
MaxRead ==
    2
\* number of WriteSerial calls of one behaviour
MaxWrites ==
    1
\* a client asks get_bytes for 0..MaxWant bytes
MaxWant ==
    4
\* the reader sends up to MaxBytes bytes to a client of get_bytes
MaxBytes ==
    5
\* consecutive read() calls of one ReadChunk call that return 0
MaxSpins ==
    1

Readers == 0 .. (CCID_DRIVER_MAX_READERS - 1)
Byte == 0 .. 255
NULL == "NULL"

(***************************************************************************)
(* Byte arithmetic.                                                        *)
(***************************************************************************)
RECURSIVE Xor(_, _)
\* the C operator ^ on two unsigned char values
Xor(a, b) ==
    IF a = 0 THEN b
    ELSE IF b = 0 THEN a
    ELSE ((a + b) % 2) + 2 * Xor(a \div 2, b \div 2)

RECURSIVE XorRange(_, _, _)
\* s[lo] ^ ... ^ s[hi]; ^ is associative, and the range is halved to keep
\* the evaluation shallow
XorRange(s, lo, hi) ==
    IF lo > hi THEN 0
    ELSE IF lo = hi THEN s[lo]
    ELSE Xor(XorRange(s, lo, (lo + hi) \div 2), XorRange(s, (lo + hi) \div 2 + 1, hi))

\* c ^= s[1]; c ^= s[2]; ... (the loops of lines 223-224 and 349-350)
XorAll(c, s) ==
    Xor(c, XorRange(s, 1, Len(s)))

\* dw2i(a, x): the 32-bit little-endian value at a[x..x+3] (x counted from 0),
\* as the int it becomes
dw2i(a, x) ==
    LET hi == IF a[x + 4] >= 128 THEN a[x + 4] - 256 ELSE a[x + 4]
    IN  hi * 16777216 + a[x + 3] * 65536 + a[x + 2] * 256 + a[x + 1]

\* int addition 10 + v, wrapping at 32 bits
Add10(v) ==
    IF v > 2147483647 - 10 THEN (v - 2147483647) - 2147483639 ELSE 10 + v

\* int subtraction v - 5, wrapping at 32 bits
Sub5(v) ==
    IF v < 5 - 2147483647 - 1 THEN (v + 2147483647) + 2147483644 ELSE v - 5

\* bytes s[from+1 .. from+n] of a sequence (C: s + from, n bytes)
Slice(s, from, n) ==
    SubSeq(s, from + 1, from + n)

\* memcpy(dst + off, d, Len(d)) on a buffer kept as its written prefix
Poke(dst, off, d) ==
    SubSeq(dst, 1, off) \o d \o SubSeq(dst, off + Len(d) + 1, Len(dst))

(***************************************************************************)
(* State.                                                                  *)
(***************************************************************************)
VARIABLES
    fd,                 \* serialDevice[i].fd
    device,             \* serialDevice[i].device (NULL or a path)
    buffer,             \* serialDevice[i].buffer: the bytes written so far;
                        \* the rest of the static array is still zero
    buffer_offset,      \* serialDevice[i].buffer_offset
    buffer_offset_last, \* serialDevice[i].buffer_offset_last
    stream,             \* bytes the reader has sent that no read() returned yet
    segs,               \* how the reader's byte stream was composed (history)
    pc,                 \* position of the ReadSerial call
    reader,             \* its reader_index
    echo,               \* its local echo
    c,                  \* its local c
    to_read,            \* its local to_read
    rv,                 \* the status it returned
    rx,                 \* the caller's buffer, as its written prefix
    want,               \* the length a client passed to get_bytes
    reading,            \* inside ReadChunk
    already_read,       \* ReadChunk's already_read
    min_length,         \* ReadChunk's min_length
    spins,              \* read() calls of this ReadChunk call that returned 0
    log,                \* the DEBUG_* records of the call, in order
    got,                \* bytes get_bytes delivered to its callers, in order
    io_fail,            \* which system call made ReadChunk fail
    gb,                 \* the latest get_bytes call: its length, the bytes
                        \* present, the ReadChunk call it made (history)
    writes,             \* the write() calls issued, in order
    wcalls,             \* the WriteSerial calls made and what they returned
    opening,            \* 1 or 2 inside the first or second CmdEscape of
                        \* OpenSerialByName, else 0
    open_fds,           \* the descriptors the process holds open
    opened              \* the latest OpenSerialByName call and what it
                        \* returned (history)

connVars == <<fd, device, buffer, buffer_offset, buffer_offset_last>>
callVars == <<pc, reader, echo, c, to_read, rv, rx, want>>
chunkVars == <<reading, already_read, min_length, spins>>
histVars == <<log, got, io_fail, gb>>
writeVars == <<writes, wcalls>>
lifeVars == <<opening, open_fds, opened>>
vars == <<connVars, stream, segs, callVars, chunkVars, histVars, writeVars, lifeVars>>

(***************************************************************************)
(* What the reader sends.  The wire format is the one described at lines   *)
(* 52-79: a command or response is SYNC, CTRL, the CCID message, LRC; an   *)
(* error message is SYNC, NAK, LRC; a card movement is 0x50 and a state    *)
(* byte; a time request is one byte of 0x80..0xFF.  A stream is composed   *)
(* of such segments, and of malformed ones.                                *)
(***************************************************************************)
Seg(k, L, x, ok) ==
    [k |-> k, L |-> L, x |-> x, ok |-> ok]

\* a CCID message declaring a payload of L bytes: 5 header bytes (the length
\* is the little-endian dword at offset 1), 5 more header bytes, the payload;
\* a reader declaring a length outside -4..GEMPCTWIN_MAXBUF sends the first
\* 5 bytes only
FrameOf(L, x) ==
    LET n == IF L > -5 /\ L <= GEMPCTWIN_MAXBUF THEN 10 + L ELSE 5
    IN  [i \in 1 .. n |->
            CASE i = 1 -> 128
              [] i = 2 -> L % 256
              [] i = 3 -> (L \div 256) % 256
              [] i = 4 -> (L \div 65536) % 256
              [] i = 5 -> (L \div 16777216) % 256
              [] OTHER -> (16 * x + i) % 256]

\* the LRC that makes the xor of the whole packet zero
GoodLrc(f) ==
    XorAll(Xor(SYNC, CTRL_ACK), f)

SegBytes(s) ==
    CASE s.k = "ack" ->
            <<SYNC, CTRL_ACK>> \o FrameOf(s.L, s.x)
                \o <<IF s.ok THEN GoodLrc(FrameOf(s.L, s.x))
                     ELSE (GoodLrc(FrameOf(s.L, s.x)) + 1) % 256>>
      [] s.k = "nak" -> <<SYNC, CTRL_NAK, s.x>>
      [] s.k = "slot" -> <<RDR_to_PC_NotifySlotChange, s.x>>
      [] s.k = "ctl" -> <<SYNC, s.x>>
      [] s.k = "cut" ->
            SubSeq(<<SYNC, CTRL_ACK>> \o FrameOf(1, s.x)
                       \o <<GoodLrc(FrameOf(1, s.x))>>, 1, s.L)
      [] OTHER -> <<s.x>>          \* "time" and "junk": one byte

RECURSIVE Flatten(_)
Flatten(ss) ==
    IF ss = <<>> THEN <<>> ELSE SegBytes(Head(ss)) \o Flatten(Tail(ss))

NakLrc == Xor(SYNC, CTRL_NAK)

\* traffic other than a command echo or a response
Harmless ==
    {Seg("time", 0, 128, TRUE), Seg("time", 0, 255, TRUE),
     Seg("slot", 0, CARD_PRESENT, TRUE), Seg("slot", 0, CARD_ABSENT, TRUE),
     Seg("slot", 0, 7, TRUE), Seg("slot", 0, 128, TRUE),
     Seg("nak", 0, NakLrc, TRUE)}
Fatal ==
    {Seg("nak", 0, 0, FALSE), Seg("nak", 0, 150, FALSE),
     Seg("junk", 0, 0, TRUE), Seg("junk", 0, 127, TRUE),
     Seg("junk", 0, CTRL_ACK, TRUE), Seg("junk", 0, CTRL_NAK, TRUE),
     Seg("ctl", 0, 0, TRUE), Seg("ctl", 0, SYNC, TRUE),
     Seg("ctl", 0, RDR_to_PC_NotifySlotChange, TRUE), Seg("ctl", 0, 128, TRUE)}
Noise == Harmless \cup Fatal

\* echo and response with every payload length and checksum verdict
Exchanges ==
    {<<Seg("ack", Le, 1, oke), Seg("ack", Lr, 2, okr)>> :
        Le \in 0 .. MaxPayload, Lr \in 0 .. MaxPayload,
        oke \in BOOLEAN, okr \in BOOLEAN}

\* length fields with the high bit set: 10 + L below 10
Odd ==
    {<<Seg("ack", -1, 1, TRUE), Seg("ack", 0, 2, TRUE)>>,
     <<Seg("ack", 1, 1, TRUE), Seg("ack", -5, 2, TRUE)>>,
     <<Seg("ack", -6, 1, TRUE), Seg("ack", 0, 2, TRUE)>>,
     <<Seg("ack", 0, 1, TRUE), Seg("ack", -2147483647, 2, TRUE)>>,
     <<Seg("ack", 2147483647, 1, TRUE), Seg("ack", 0, 2, TRUE)>>}

Plain(ok) ==
    <<Seg("ack", 1, 1, ok), Seg("ack", 0, 2, ok)>>

\* the longest frame whose body fits the connection's buffer
Longest ==
    {<<Seg("ack", 0, 1, TRUE), Seg("ack", GEMPCTWIN_MAXBUF - 5, 2, TRUE)>>}

Streams ==
    Exchanges \cup Odd \cup Longest
    \cup {<<n>> \o Plain(ok) : n \in Noise, ok \in BOOLEAN}
    \cup {<<Seg("ack", 1, 1, ok), n, Seg("ack", 0, 2, ok)>> :
             n \in Noise, ok \in BOOLEAN}
    \cup {<<n, Seg("ack", 0, 1, TRUE), m, Seg("ack", 2, 2, TRUE)>> :
             n \in Harmless, m \in Harmless}
    \cup {<<n, m>> \o Plain(TRUE) : n \in Harmless, m \in Harmless}
    \cup {Plain(TRUE) \o <<n>> : n \in Harmless}
    \cup {Plain(TRUE) \o Plain(TRUE)}
    \cup {<<Seg("cut", n, 1, TRUE)>> : n \in {0, 1, 2, 5, 9, 13}}
    \cup {<<Seg("ack", 1, 1, TRUE), Seg("cut", n, 2, TRUE)>> : n \in {0, 1, 2, 7, 13}}

(***************************************************************************)
(* Initial state: slot 0 holds a connection as OpenSerialByName leaves it  *)
(* at line 609 (cursors 0, 0); the other slots are the zeroed static       *)
(* array.  No call is in progress.                                         *)
(***************************************************************************)
InitConn ==
    /\ open_fds = {3}
    /\ fd = [i \in Readers |-> IF i = 0 THEN 3 ELSE 0]
    /\ device = [i \in Readers |-> IF i = 0 THEN "/dev/pcsc/1" ELSE NULL]
    /\ buffer = [i \in Readers |-> <<>>]
    /\ buffer_offset = [i \in Readers |-> 0]
    /\ buffer_offset_last = [i \in Readers |-> 0]

\* a get_bytes call: the length asked, the bytes present in the buffer, the
\* number of ReadChunk calls made, the min_length passed and the count
\* returned, and the status
Call(n, present, chunks, min, ret, status) ==
    [n |-> n, present |-> present, chunks |-> chunks, min |-> min,
     ret |-> ret, status |-> status]

NoCall == Call(0, 0, 0, 0, 0, "none")

\* an OpenSerialByName call and its result
Opened(reader_index, dev_name, status, why) ==
    [reader_index |-> reader_index, dev_name |-> dev_name, status |-> status, why |-> why]

NoOpen == Opened(0, NULL, "none", "none")

InitCall ==
    /\ pc = "idle"
    /\ reader = 0
    /\ echo = FALSE
    /\ c = 0
    /\ to_read = 0
    /\ rv = STATUS_SUCCESS
    /\ rx = <<>>
    /\ want = 0
    /\ reading = FALSE
    /\ already_read = 0
    /\ min_length = 0
    /\ spins = 0
    /\ log = <<>>
    /\ got = <<>>
    /\ io_fail = "none"
    /\ gb = NoCall
    /\ writes = <<>>
    /\ wcalls = <<>>
    /\ opening = 0
    /\ opened = NoOpen

Init ==
    /\ InitConn
    /\ InitCall
    /\ segs \in Streams
    /\ stream = Flatten(segs)

(***************************************************************************)
(* ReadSerial (lines 247-362).  Each label of the function is a value of   *)
(* pc; the code after the get_bytes call of a label is one operator below. *)
(***************************************************************************)
Labels == {"start", "slot_change", "sync", "nak", "ack", "body", "lrc"}

Rec(e, v, f) ==
    [e |-> e, v |-> v, f |-> f]

\* goto l
Goto(l, ch, entries) ==
    /\ pc' = l
    /\ c' = ch
    /\ log' = log \o entries
    /\ UNCHANGED <<echo, to_read, rv>>

\* return status
Return(status, ch, entries) ==
    /\ pc' = "done"
    /\ rv' = status
    /\ c' = ch
    /\ log' = log \o entries
    /\ UNCHANGED <<echo, to_read>>

\* variant: the comparison of line 270 written as c > 0x80
IsTimeRequest_Strict(ch) ==
    ch > TIME_REQUEST

\* line 270: c >= 0x80
IsTimeRequest(ch) ==
    ch >= TIME_REQUEST

\* variant: line 277 returns STATUS_UNSUCCESSFUL
StartStep_Unsuccessful(ch) ==
    IF ch = RDR_to_PC_NotifySlotChange THEN Goto("slot_change", ch, <<>>)
    ELSE IF ch = SYNC THEN Goto("sync", ch, <<>>)
    ELSE IF IsTimeRequest(ch) THEN Goto("start", ch, <<Rec("time request", ch, <<>>)>>)
    ELSE Return(STATUS_UNSUCCESSFUL, ch, <<Rec("Got", ch, <<>>)>>)

\* start: lines 264-277
StartStep(ch) ==
    IF ch = RDR_to_PC_NotifySlotChange THEN Goto("slot_change", ch, <<>>)
    ELSE IF ch = SYNC THEN Goto("sync", ch, <<>>)
    ELSE IF IsTimeRequest(ch) THEN Goto("start", ch, <<Rec("time request", ch, <<>>)>>)
    ELSE Return(STATUS_COMM_ERROR, ch, <<Rec("Got", ch, <<>>)>>)

\* variant: an unknown movement code ends the read
SlotChangeStep_UnknownFatal(ch) ==
    IF ch = CARD_ABSENT THEN Goto("start", ch, <<Rec("Card removed", ch, <<>>)>>)
    ELSE IF ch = CARD_PRESENT THEN Goto("start", ch, <<Rec("Card inserted", ch, <<>>)>>)
    ELSE Return(STATUS_COMM_ERROR, ch, <<Rec("Unknown card movement", ch, <<>>)>>)

\* slot_change: lines 284-297
SlotChangeStep(ch) ==
    IF ch = CARD_ABSENT THEN Goto("start", ch, <<Rec("Card removed", ch, <<>>)>>)
    ELSE IF ch = CARD_PRESENT THEN Goto("start", ch, <<Rec("Card inserted", ch, <<>>)>>)
    ELSE Goto("start", ch, <<Rec("Unknown card movement", ch, <<>>)>>)

\* variant: an unexpected control byte restarts the scan
SyncStep_Resync(ch) ==
    IF ch = CTRL_ACK THEN Goto("ack", ch, <<>>)
    ELSE IF ch = CTRL_NAK THEN Goto("nak", ch, <<>>)
    ELSE Goto("start", ch, <<Rec("Got instead of ACK/NAK", ch, <<>>)>>)

\* sync: lines 304-311
SyncStep(ch) ==
    IF ch = CTRL_ACK THEN Goto("ack", ch, <<>>)
    ELSE IF ch = CTRL_NAK THEN Goto("nak", ch, <<>>)
    ELSE Return(STATUS_COMM_ERROR, ch, <<Rec("Got instead of ACK/NAK", ch, <<>>)>>)

\* variant: a wrong NAK checksum is only logged
NakStep_Lenient(ch) ==
    IF ch # Xor(SYNC, CTRL_NAK)
    THEN Goto("start", ch, <<Rec("Wrong LRC", ch, <<>>)>>)
    ELSE Goto("start", ch, <<>>)

\* variant: every NAK ends the read
NakStep_Fatal(ch) ==
    Return(STATUS_COMM_ERROR, ch, <<Rec("Wrong LRC", ch, <<>>)>>)

\* nak: lines 318-324
NakStep(ch) ==
    IF ch # Xor(SYNC, CTRL_NAK)
    THEN Return(STATUS_COMM_ERROR, ch, <<Rec("Wrong LRC", ch, <<>>)>>)
    ELSE Goto("start", ch, <<>>)

\* ack, after the 5 header bytes: lines 332-335
AckStep(buf) ==
    /\ pc' = "body"
    /\ to_read' = Add10(dw2i(buf, 1))
    /\ log' = Append(log, Rec("frame size", Add10(dw2i(buf, 1)), <<>>))
    /\ UNCHANGED <<echo, c, rv>>

\* ack, after the rest of the frame: lines 339-344
BodyStep(buf) ==
    /\ pc' = "lrc"
    /\ log' = Append(log, Rec("frame", to_read, Slice(buf, 0, to_read)))
    /\ UNCHANGED <<echo, c, to_read, rv>>

\* variant: the first frame is returned (no echo pass)
LrcStep_NoEcho(ch, buf) ==
    LET x == XorAll(ch, Slice(buf, 0, to_read))
        warn == IF x # Xor(SYNC, CTRL_ACK)
                THEN <<Rec("lrc", ch, <<>>), Rec("Wrong LRC", x, <<>>)>>
                ELSE <<Rec("lrc", ch, <<>>)>>
    IN  Return(STATUS_SUCCESS, x, warn)

\* variant: a wrong frame checksum ends the read
LrcStep_Fatal(ch, buf) ==
    LET x == XorAll(ch, Slice(buf, 0, to_read))
        warn == IF x # Xor(SYNC, CTRL_ACK)
                THEN <<Rec("lrc", ch, <<>>), Rec("Wrong LRC", x, <<>>)>>
                ELSE <<Rec("lrc", ch, <<>>)>>
    IN  IF x # Xor(SYNC, CTRL_ACK)
        THEN Return(STATUS_COMM_ERROR, x, warn)
        ELSE IF echo
        THEN /\ echo' = FALSE
             /\ pc' = "start"
             /\ c' = x
             /\ log' = log \o warn
             /\ UNCHANGED <<to_read, rv>>
        ELSE /\ Return(STATUS_SUCCESS, x, warn)

\* ack, after the checksum byte: lines 348-361
LrcStep(ch, buf) ==
    LET x == XorAll(ch, Slice(buf, 0, to_read))
        warn == IF x # Xor(SYNC, CTRL_ACK)
                THEN <<Rec("lrc", ch, <<>>), Rec("Wrong LRC", x, <<>>)>>
                ELSE <<Rec("lrc", ch, <<>>)>>
    IN  IF echo
        THEN /\ echo' = FALSE
             /\ pc' = "start"
             /\ c' = x
             /\ log' = log \o warn
             /\ UNCHANGED <<to_read, rv>>
        ELSE /\ Return(STATUS_SUCCESS, x, warn)

\* a client that called get_bytes itself has its STATUS_SUCCESS (line 415)
ClientStep ==
    /\ pc' = "done"
    /\ rv' = STATUS_SUCCESS
    /\ UNCHANGED <<echo, c, to_read, log>>

\* the code that follows a successful get_bytes at the current label; d are
\* the bytes it delivered and buf the caller's buffer after it
ReadSerialStep(d, buf) ==
    CASE pc = "start" -> StartStep(d[1])
      [] pc = "slot_change" -> SlotChangeStep(d[1])
      [] pc = "sync" -> SyncStep(d[1])
      [] pc = "nak" -> NakStep(d[1])
      [] pc = "ack" -> AckStep(buf)
      [] pc = "body" -> BodyStep(buf)
      [] pc = "lrc" -> LrcStep(d[1], buf)
      [] pc = "get_bytes" -> ClientStep

\* the length argument of the get_bytes call of the current label
Length ==
    CASE pc = "ack" -> 5
      [] pc = "body" -> Sub5(to_read)
      [] pc = "get_bytes" -> want
      [] OTHER -> 1

\* whether that call writes to the caller's buffer (else to the local c)
ToCaller == pc \in {"ack", "body", "get_bytes"}

\* where in the caller's buffer: buffer, or buffer+5
DestOff == IF pc = "body" THEN 5 ELSE 0

\* ReadSerial is entered: line 257
ReadSerial(reader_index) ==
    /\ pc = "idle"
    /\ device[reader_index] # NULL
    /\ pc' = "start"
    /\ reader' = reader_index
    /\ echo' = TRUE
    /\ UNCHANGED <<c, to_read, rv, rx, want>>
    /\ UNCHANGED <<connVars, stream, segs, chunkVars, histVars, writeVars, lifeVars>>

\* a client calls get_bytes(reader_index, its buffer, length): line 370
get_bytes(reader_index, length) ==
    /\ pc = "idle"
    /\ device[reader_index] # NULL
    /\ pc' = "get_bytes"
    /\ reader' = reader_index
    /\ want' = length
    /\ UNCHANGED <<echo, c, to_read, rv, rx>>
    /\ UNCHANGED <<connVars, stream, segs, chunkVars, histVars, writeVars, lifeVars>>

\* the caller of ReadSerial or get_bytes has the status and goes on
Returned ==
    /\ pc = "done"
    /\ opening = 0
    /\ pc' = "idle"
    /\ UNCHANGED <<reader, echo, c, to_read, rv, rx, want>>
    /\ UNCHANGED <<connVars, stream, segs, chunkVars, histVars, writeVars, lifeVars>>

\* the places get_bytes is called from
Callers == Labels \cup {"get_bytes"}

(***************************************************************************)
(* get_bytes (lines 370-416).                                              *)
(***************************************************************************)
\* line 378
EnoughData(offset, length, offset_last) ==
    offset + length <= offset_last

\* variant: ReadChunk is asked for the whole request
Shortfall_Whole(length, present) ==
    length

\* line 401: length - present
Shortfall(length, present) ==
    length - present

\* lines 378-383: the request is served from the buffer.  A negative length
\* passes the test of line 378 and reaches memcpy converted to a size_t of
\* 2^32 - 2^31 or more (2^64 - 2^31 or more on a 64-bit build).  No build
\* can complete a copy of that size inside the process's address space: the
\* copy faults, or a checking libc aborts, and either way the call never
\* returns and line 382 is not reached.  pc = "crash" is that outcome.
get_bytes_available ==
    /\ pc \in Callers
    /\ ~reading
    /\ EnoughData(buffer_offset[reader], Length, buffer_offset_last[reader])
    /\ IF Length < 0
       THEN /\ pc' = "crash"
            /\ UNCHANGED <<reader, echo, c, to_read, rv, rx, want>>
            /\ UNCHANGED <<connVars, histVars>>
       ELSE LET d == Slice(buffer[reader], buffer_offset[reader], Length)
                buf == IF ToCaller THEN Poke(rx, DestOff, d) ELSE rx
            IN  /\ buffer_offset' = [buffer_offset EXCEPT ![reader] = @ + Length]
                /\ rx' = buf
                /\ got' = got \o d
                /\ gb' = Call(Length, buffer_offset_last[reader] - buffer_offset[reader],
                              0, 0, 0, STATUS_SUCCESS)
                /\ ReadSerialStep(d, buf)
                /\ UNCHANGED <<reader, want, fd, device, buffer, buffer_offset_last, io_fail>>
    /\ UNCHANGED <<stream, segs, chunkVars, writeVars, lifeVars>>

\* lines 384-401: the buffered bytes are copied and ReadChunk is entered
get_bytes_more ==
    /\ pc \in Callers
    /\ ~reading
    /\ ~EnoughData(buffer_offset[reader], Length, buffer_offset_last[reader])
    /\ LET present == buffer_offset_last[reader] - buffer_offset[reader]
           d == Slice(buffer[reader], buffer_offset[reader], present)
       IN  /\ rx' = IF present > 0 /\ ToCaller THEN Poke(rx, DestOff, d) ELSE rx
           /\ reading' = TRUE
           /\ already_read' = 0
           /\ min_length' = Shortfall(Length, present)
           /\ spins' = 0
           /\ gb' = Call(Length, present, 1, Shortfall(Length, present), 0, "running")
    /\ UNCHANGED <<pc, reader, echo, c, to_read, rv, want>>
    /\ UNCHANGED <<connVars, stream, segs, log, got, io_fail, writeVars, lifeVars>>

(***************************************************************************)
(* ReadChunk (lines 424-479), called with the connection's buffer and its  *)
(* size.  One action per outcome of a loop iteration.                      *)
(***************************************************************************)
\* variant: a failing get_bytes records the bytes ReadChunk had read
ReadChunkFails_KeepsPartial(why) ==
    /\ reading
    /\ reading' = FALSE
    /\ already_read' = 0
    /\ min_length' = 0
    /\ spins' = 0
    /\ pc' = "done"
    /\ rv' = STATUS_COMM_ERROR
    /\ io_fail' = why
    /\ gb' = [gb EXCEPT !.ret = -1, !.status = STATUS_COMM_ERROR]
    /\ buffer_offset' = [buffer_offset EXCEPT ![reader] = 0]
    /\ buffer_offset_last' = [buffer_offset_last EXCEPT ![reader] = already_read]
    /\ UNCHANGED <<reader, echo, c, to_read, rx, want, log, got>>
    /\ UNCHANGED <<fd, device, buffer, stream, segs, writeVars, lifeVars>>

\* ReadChunk returns -1, get_bytes returns STATUS_COMM_ERROR (line 403) and
\* ReadSerial returns it
ReadChunkFails(why) ==
    /\ reading
    /\ reading' = FALSE
    /\ already_read' = 0
    /\ min_length' = 0
    /\ spins' = 0
    /\ pc' = "done"
    /\ rv' = STATUS_COMM_ERROR
    /\ io_fail' = why
    /\ gb' = [gb EXCEPT !.ret = -1, !.status = STATUS_COMM_ERROR]
    /\ UNCHANGED <<reader, echo, c, to_read, rx, want, log, got>>
    /\ UNCHANGED <<connVars, stream, segs, writeVars, lifeVars>>

\* lines 450-454: select() returns -1; it does so at once when the
\* descriptor is not open, and then no other outcome is possible
ReadChunk_select_error ==
    ReadChunkFails("select")

\* lines 456-460: select() returns 0
ReadChunk_timeout ==
    /\ fd[reader] \in open_fds
    /\ ReadChunkFails("timeout")

\* lines 463-467: read() returns a negative value
ReadChunk_read_error ==
    /\ fd[reader] \in open_fds
    /\ ReadChunkFails("read")

\* what read() may return when bytes are pending: 1..MaxRead of them, or
\* all that fit; inside OpenSerialByName, all that fit
ReadSizes(count) ==
    LET most == IF Len(stream) < count THEN Len(stream) ELSE count
    IN  {k \in (IF opening = 0 THEN 1 .. MaxRead ELSE {}) \cup {most} : k >= 1 /\ k <= most}

\* line 441
LoopAgain(n, min) ==
    n < min

\* variant: the bytes read beyond the request are forgotten
Refill_DropSurplus(length, present, n) ==
    /\ buffer_offset' = [buffer_offset EXCEPT ![reader] = length - present]
    /\ buffer_offset_last' = [buffer_offset_last EXCEPT ![reader] = length - present]

\* variant: buffer_offset_last is set to the count of bytes left over
Refill_LeftOver(length, present, n) ==
    /\ buffer_offset' = [buffer_offset EXCEPT ![reader] = length - present]
    /\ buffer_offset_last' = [buffer_offset_last EXCEPT ![reader] = n - (length - present)]

\* variant: buffer_offset goes back to the start of the fresh bytes
Refill_Rewind(length, present, n) ==
    /\ buffer_offset' = [buffer_offset EXCEPT ![reader] = 0]
    /\ buffer_offset_last' = [buffer_offset_last EXCEPT ![reader] = n]

\* lines 406-409: get_bytes after ReadChunk returned n
Refill(length, present, n) ==
    /\ buffer_offset' = [buffer_offset EXCEPT ![reader] = length - present]
    /\ buffer_offset_last' = [buffer_offset_last EXCEPT ![reader] = n]

\* lines 462-478: read() returns k > 0 bytes at buffer + already_read; when
\* the loop ends, get_bytes finishes (lines 405-415) and ReadSerial goes on
ReadChunk_read ==
    /\ reading
    /\ fd[reader] \in open_fds
    /\ \E k \in ReadSizes(GEMPCTWIN_MAXBUF - already_read) :
        LET data == SubSeq(stream, 1, k)
            filled == Poke(buffer[reader], already_read, data)
            n == already_read + k
            present == buffer_offset_last[reader] - buffer_offset[reader]
            fresh == Slice(filled, 0, Length - present)
            buf == IF ToCaller THEN Poke(rx, DestOff + present, fresh) ELSE rx
            d == IF ToCaller THEN Slice(buf, DestOff, Length) ELSE fresh
        IN  /\ stream' = SubSeq(stream, k + 1, Len(stream))
            /\ buffer' = [buffer EXCEPT ![reader] = filled]
            /\ IF LoopAgain(n, min_length)
               THEN /\ already_read' = n
                    /\ spins' = 0
                    /\ UNCHANGED <<reading, min_length>>
                    /\ UNCHANGED <<callVars, histVars>>
                    /\ UNCHANGED <<buffer_offset, buffer_offset_last>>
               ELSE /\ reading' = FALSE
                    /\ already_read' = 0
                    /\ min_length' = 0
                    /\ spins' = 0
                    /\ Refill(Length, present, n)
                    /\ rx' = buf
                    /\ got' = got \o d
                    /\ gb' = [gb EXCEPT !.ret = n, !.status = STATUS_SUCCESS]
                    /\ ReadSerialStep(d, buf)
                    /\ UNCHANGED <<reader, want, io_fail>>
    /\ UNCHANGED <<fd, device, segs, writeVars, lifeVars>>

\* lines 462-475: read() returns 0, at end of file or when the buffer is
\* full (buffer_length - already_read is 0): already_read += 0, and the loop
\* goes round
ReadChunk_read_nothing ==
    /\ reading
    /\ fd[reader] \in open_fds
    /\ stream = <<>> \/ GEMPCTWIN_MAXBUF - already_read = 0
    /\ spins < MaxSpins
    /\ spins' = spins + 1
    /\ UNCHANGED <<reading, already_read, min_length>>
    /\ UNCHANGED <<connVars, stream, segs, callVars, histVars, writeVars, lifeVars>>

Next ==
    \/ \E reader_index \in Readers : ReadSerial(reader_index)
    \/ get_bytes_available
    \/ get_bytes_more
    \/ ReadChunk_select_error
    \/ ReadChunk_timeout
    \/ ReadChunk_read_error
    \/ ReadChunk_read

Spec == Init /\ [][Next]_vars

(***************************************************************************)
(* The buffered reader under a client that calls get_bytes itself, any     *)
(* number of times, with lengths of its choice, on the connection of slot  *)
(* 0; read() may return 0.                                                 *)
(***************************************************************************)
\* n bytes 1, 2, ..., n
Raw(n) ==
    [i \in 1 .. n |-> Seg("raw", 0, i, TRUE)]

\* more bytes than the connection's buffer holds
Flood ==
    <<Seg("ack", 0, 3, TRUE), Seg("ack", GEMPCTWIN_MAXBUF - 5, 4, TRUE)>>

RawStreams ==
    {Raw(n) : n \in 0 .. MaxBytes} \cup {Flood}

\* the lengths the client asks for: a few bytes at a time; or, as its first
\* call on a long stream, a whole buffer or one byte more
Wants ==
    IF Len(stream) <= MaxBytes THEN 0 .. MaxWant
    ELSE IF got = <<>> /\ io_fail = "none"
         THEN {GEMPCTWIN_MAXBUF, GEMPCTWIN_MAXBUF + 1}
         ELSE {}

InitBuf ==
    /\ InitConn
    /\ InitCall
    /\ segs \in RawStreams
    /\ stream = Flatten(segs)

NextBuf ==
    \/ \E reader_index \in Readers, length \in Wants : get_bytes(reader_index, length)
    \/ get_bytes_available
    \/ get_bytes_more
    \/ ReadChunk_select_error
    \/ ReadChunk_timeout
    \/ ReadChunk_read_error
    \/ ReadChunk_read
    \/ ReadChunk_read_nothing
    \/ Returned

SpecBuf == InitBuf /\ [][NextBuf]_vars

(***************************************************************************)
(* OpenSerialByName (lines 524-652) and CloseSerial (lines 660-671).       *)
(* CmdEscape is defined outside this file: it sends a command with         *)
(* WriteSerial, reads the answer with ReadSerial and fails when either     *)
(* fails or when the answer reports a failed command.  Its ReadSerial call *)
(* runs as the actions above, with opening telling where it returns to.    *)
(* One reader is attached; every device path names its serial line.        *)
(***************************************************************************)
Paths == {"/dev/pcsc/1", "/dev/pcsc/2"}

\* open() returns the lowest descriptor that is not open
NewFd ==
    CHOOSE n \in 3 .. (3 + Cardinality(open_fds)) :
        /\ n \notin open_fds
        /\ \A m \in 3 .. (n - 1) : m \in open_fds

\* variant: the scan of lines 533-541 looks at slot 0 only
InUse_FirstSlot(dev_name) ==
    device[0] # NULL /\ device[0] = dev_name

\* lines 533-541: some slot holds this device name
InUse(dev_name) ==
    \E i \in Readers : device[i] # NULL /\ device[i] = dev_name

\* the call returns STATUS_UNSUCCESSFUL or STATUS_SUCCESS
OpenReturns(status, why) ==
    /\ opened' = [opened EXCEPT !.status = status, !.why = why]
    /\ opening' = 0
    /\ pc' = "idle"

\* CmdEscape(reader_index, ...) is entered and its WriteSerial has
\* succeeded: ReadSerial starts (line 257)
CmdEscape(reader_index, k) ==
    /\ opening' = k
    /\ pc' = "start"
    /\ reader' = reader_index
    /\ echo' = TRUE

\* lines 524-621: from the entry to the return, or to the ReadSerial call
\* of the first CmdEscape.  The caller opens a slot that holds no device
\* name, or tries a name that is held.
OpenSerialByName(reader_index, dev_name) ==
    /\ pc = "idle"
    /\ opening = 0
    /\ device[reader_index] = NULL \/ InUse(dev_name)
    /\ IF InUse(dev_name)
       THEN /\ opened' = (Opened(reader_index, dev_name,
                                              STATUS_UNSUCCESSFUL, "in use"))
            /\ UNCHANGED <<connVars, opening, open_fds, pc, reader, echo>>
       ELSE \E how \in {"open", "tcgetattr", "tcsetattr", "write", "read"} :
            /\ UNCHANGED buffer
            /\ IF how = "open"
               THEN /\ fd' = [fd EXCEPT ![reader_index] = -1]
                    /\ opened' = (Opened(reader_index, dev_name,
                                                      STATUS_UNSUCCESSFUL, how))
                    /\ UNCHANGED <<device, buffer_offset, buffer_offset_last>>
                    /\ UNCHANGED <<opening, open_fds, pc, reader, echo>>
               ELSE IF how \in {"tcgetattr", "tcsetattr"}
               THEN /\ device' = [device EXCEPT ![reader_index] = dev_name]
                    /\ fd' = [fd EXCEPT ![reader_index] = -1]
                    /\ opened' = (Opened(reader_index, dev_name,
                                                      STATUS_UNSUCCESSFUL, how))
                    /\ UNCHANGED <<buffer_offset, buffer_offset_last>>
                    /\ UNCHANGED <<opening, open_fds, pc, reader, echo>>
               ELSE /\ device' = [device EXCEPT ![reader_index] = dev_name]
                    /\ fd' = [fd EXCEPT ![reader_index] = NewFd]
                    /\ open_fds' = open_fds \cup {NewFd}
                    /\ buffer_offset' = [buffer_offset EXCEPT ![reader_index] = 0]
                    /\ buffer_offset_last' = [buffer_offset_last EXCEPT ![reader_index] = 0]
                    /\ IF how = "write"
                       THEN /\ opened' = (Opened(reader_index, dev_name,
                                                   STATUS_UNSUCCESSFUL, "escape"))
                            /\ UNCHANGED <<opening, pc, reader, echo>>
                       ELSE /\ opened' = (Opened(reader_index, dev_name,
                                                   "running", how))
                            /\ CmdEscape(reader_index, 1)
    /\ UNCHANGED <<c, to_read, rv, rx, want>>
    /\ UNCHANGED <<stream, segs, chunkVars, histVars, writeVars>>

\* lines 621-651: the ReadSerial call of a CmdEscape has returned
OpenSerialByName_escaped ==
    /\ pc = "done"
    /\ opening \in {1, 2}
    /\ \E accepted \in BOOLEAN :
        IF rv # STATUS_SUCCESS \/ ~accepted
        THEN /\ OpenReturns(STATUS_UNSUCCESSFUL, "escape")
             /\ UNCHANGED <<reader, echo>>
        ELSE IF opening = 1
        THEN /\ CmdEscape(reader, 2)
             /\ UNCHANGED opened
        ELSE /\ OpenReturns(STATUS_SUCCESS, "none")
             /\ UNCHANGED <<reader, echo>>
    /\ UNCHANGED <<c, to_read, rv, rx, want, open_fds>>
    /\ UNCHANGED <<connVars, stream, segs, chunkVars, histVars, writeVars>>

\* lines 660-671
CloseSerial(reader_index) ==
    /\ pc = "idle"
    /\ opening = 0
    /\ open_fds' = open_fds \ {fd[reader_index]}
    /\ fd' = [fd EXCEPT ![reader_index] = -1]
    /\ device' = [device EXCEPT ![reader_index] = NULL]
    /\ UNCHANGED <<buffer, buffer_offset, buffer_offset_last, opening, opened>>
    /\ UNCHANGED <<stream, segs, callVars, chunkVars, histVars, writeVars>>

\* the echo of a command of OpenSerialByName and the reader's answer
Answer ==
    <<Seg("ack", 1, 3, TRUE), Seg("ack", 0, 4, TRUE)>>

\* what the reader sends after the two commands of OpenSerialByName
OpenStreams ==
    {Answer \o Answer,
     Answer \o <<Seg("nak", 0, 0, FALSE)>>}

\* the zeroed static array serialDevice[] (line 179)
InitOpen ==
    /\ open_fds = {}
    /\ fd = [i \in Readers |-> 0]
    /\ device = [i \in Readers |-> NULL]
    /\ buffer = [i \in Readers |-> <<>>]
    /\ buffer_offset = [i \in Readers |-> 0]
    /\ buffer_offset_last = [i \in Readers |-> 0]
    /\ InitCall
    /\ segs \in OpenStreams
    /\ stream = Flatten(segs)

NextOpen ==
    \/ \E reader_index \in Readers, dev_name \in Paths :
            OpenSerialByName(reader_index, dev_name)
    \/ OpenSerialByName_escaped
    \/ \E reader_index \in Readers : CloseSerial(reader_index)
    \/ get_bytes_available
    \/ get_bytes_more
    \/ ReadChunk_select_error
    \/ ReadChunk_timeout
    \/ ReadChunk_read_error
    \/ ReadChunk_read

SpecOpen == InitOpen /\ [][NextOpen]_vars

(***************************************************************************)
(* A connection under either of the two callers above: a client of        *)
(* get_bytes on an open connection, and a client that opens and closes     *)
(* slots, where OpenSerialByName calls ReadSerial.  The stream tells which *)
(* caller a behaviour has.                                                 *)
(***************************************************************************)
InitConnection ==
    InitBuf \/ InitOpen

NextConnection ==
    \/ segs \in RawStreams /\ NextBuf
    \/ segs \in OpenStreams /\ NextOpen

SpecConnection == InitConnection /\ [][NextConnection]_vars

(***************************************************************************)
(* WriteSerial (lines 194-239): one action, its single write() included.   *)
(***************************************************************************)
\* variant: the 3 bytes of framing are not counted
TooLong_NoOverhead(length) ==
    length > GEMPCTWIN_MAXBUF

\* line 207
TooLong(length) ==
    length > GEMPCTWIN_MAXBUF - 3

\* variant: the checksum loop of lines 223-224 starts after the header
LowLevelBuffer_PayloadLrc(length, data) ==
    Append(<<3, 6>> \o SubSeq(data, 1, length), XorAll(0, SubSeq(data, 1, length)))

\* lines 214-225: low_level_buffer[0 .. length+2]
LowLevelBuffer(length, data) ==
    LET body == <<3, 6>> \o SubSeq(data, 1, length)
    IN  Append(body, XorAll(0, body))

\* the command of `length` bytes a caller passes
Command(length, x) ==
    [i \in 1 .. length |-> (x + 7 * i) % 256]

WriteLengths ==
    (0 .. 8) \cup ((GEMPCTWIN_MAXBUF - 4) .. (GEMPCTWIN_MAXBUF + 1))

\* write() returns -1, fewer bytes than asked, or all of them
WriteResults(count) ==
    {-1, count - 1, count}

WriteSerial(reader_index, length, data) ==
    /\ pc = "idle"
    /\ Len(wcalls) < MaxWrites
    /\ device[reader_index] # NULL
    /\ IF TooLong(length)
       THEN /\ wcalls' = Append(wcalls, [reader_index |-> reader_index,
                                length |-> length, data |-> data,
                                status |-> STATUS_UNSUCCESSFUL])
            /\ UNCHANGED writes
       ELSE \E n \in WriteResults(length + 3) :
            /\ writes' = Append(writes, [fd |-> fd[reader_index],
                                buf |-> LowLevelBuffer(length, data),
                                count |-> length + 3])
            /\ wcalls' = Append(wcalls, [reader_index |-> reader_index,
                                length |-> length, data |-> data,
                                status |-> IF n # length + 3
                                           THEN STATUS_UNSUCCESSFUL
                                           ELSE STATUS_SUCCESS])
    /\ UNCHANGED <<connVars, stream, segs, callVars, chunkVars, histVars, lifeVars>>

InitWrite ==
    /\ InitConn
    /\ InitCall
    /\ segs = <<>>
    /\ stream = <<>>

NextWrite ==
    \E reader_index \in Readers, length \in WriteLengths, x \in 0 .. 5 :
        WriteSerial(reader_index, length, Command(length, x))

SpecWrite == InitWrite /\ [][NextWrite]_vars

(***************************************************************************)
(* Reference reading of a stream, segment by segment: what a ReadSerial    *)
(* call that meets no I/O failure is expected to end with.                 *)
(***************************************************************************)
Last(q) == q[Len(q)]

Result(status, used, frame) ==
    [status |-> status, used |-> used, frame |-> frame]

RECURSIVE Decode(_, _, _)
Decode(ss, first, used) ==
    IF ss = <<>> THEN Result("starved", used, <<>>)
    ELSE LET s == Head(ss)
             n == Len(SegBytes(s))
         IN  CASE s.k \in {"time", "slot"} -> Decode(Tail(ss), first, used + n)
               [] s.k = "nak" ->
                    IF s.x = 22 THEN Decode(Tail(ss), first, used + n)
                    ELSE Result(STATUS_COMM_ERROR, used + n, <<>>)
               [] s.k \in {"junk", "ctl"} -> Result(STATUS_COMM_ERROR, used + n, <<>>)
               [] s.k = "ack" ->
                    IF s.L < -5 \/ s.L > 2147483637 THEN Result("crash", used + 7, <<>>)
                    ELSE IF first THEN Decode(Tail(ss), FALSE, used + n)
                    ELSE Result(STATUS_SUCCESS, used + n, FrameOf(s.L, s.x))
               [] OTHER -> Result("starved", used, <<>>)

\* what the call ended with
Outcome ==
    Result(IF pc = "crash" THEN "crash" ELSE rv, Len(got),
           IF pc = "done" /\ rv = STATUS_SUCCESS THEN Slice(rx, 0, to_read) ELSE <<>>)

\* the call is over and no select() or read() failed
Ended ==
    pc \in {"done", "crash"} /\ io_fail = "none"

Frames(l) == SelectSeq(l, LAMBDA r : r.e = "frame")
Checksums(l) == SelectSeq(l, LAMBDA r : r.e = "lrc")
Movements(l) ==
    SelectSeq(l, LAMBDA r : r.e \in {"Card removed", "Card inserted", "Unknown card movement"})
AckAt(ss) == {i \in 1 .. Len(ss) : ss[i].k = "ack"}
Min(S) == CHOOSE m \in S : \A o \in S : m <= o

\* C1: a successful ReadSerial has read exactly two complete ACK frames,
\* each as SYNC, ACK, 5 header bytes, (10 + L) - 5 more bytes and one checksum
\* byte; the caller's buffer holds the second; NAK, slot-change and
\* time-request traffic read on the way is none of the two.
C1_TwoFrames ==
    (pc = "done" /\ rv = STATUS_SUCCESS) =>
        /\ Len(Frames(log)) = 2
        /\ Len(Checksums(log)) = 2
        /\ Cardinality(AckAt(segs)) >= 2
        /\ LET a1 == Min(AckAt(segs))
               a2 == Min(AckAt(segs) \ {a1})
           IN  /\ got = Flatten(SubSeq(segs, 1, a2))
               /\ \A j \in 1 .. a2 : j \notin {a1, a2} => segs[j].k \in {"time", "slot", "nak"}
               /\ Frames(log)[1].f = FrameOf(segs[a1].L, segs[a1].x)
               /\ Frames(log)[2].f = FrameOf(segs[a2].L, segs[a2].x)
               /\ Len(Frames(log)[1].f) = 10 + segs[a1].L
               /\ Len(Frames(log)[2].f) = 10 + segs[a2].L
               /\ Slice(rx, 0, to_read) = FrameOf(segs[a2].L, segs[a2].x)

C1_Witness ==
    /\ pc = "done" /\ rv = STATUS_SUCCESS
    /\ Len(segs) = 4
    /\ segs[1].k = "nak" /\ segs[3].k = "slot"
    /\ segs[4].L = 2

\* an echo and a response with correct checksums, and nothing else
Exchange ==
    /\ Len(segs) = 2
    /\ \A i \in 1 .. 2 :
        /\ segs[i].k = "ack" /\ segs[i].ok
        /\ segs[i].L >= 0 /\ segs[i].L <= GEMPCTWIN_MAXBUF - 5

Took == Len(got') = Len(got) + 1
New == got'[Len(got')]

NoFrame ==
    /\ rx' = rx
    /\ Frames(log') = Frames(log)

\* C3 as stated: after SYNC, NAK, a third byte other than SYNC ^ NAK is only
\* logged, and control returns to start.
C3_Stated ==
    [][(pc = "nak" /\ Took /\ New # 22) => pc' = "start"]_vars

\* C3 as the code has it: after SYNC, NAK, a third byte other than
\* SYNC ^ NAK is logged as a wrong LRC and ends ReadSerial with
\* STATUS_COMM_ERROR; no frame is produced.
C3_WrongNakLrcIsFatal ==
    [][(pc = "nak" /\ Took /\ New # 22) =>
            /\ pc' = "done"
            /\ rv' = STATUS_COMM_ERROR
            /\ Last(log') = Rec("Wrong LRC", New, <<>>)
            /\ echo' = echo
            /\ NoFrame]_vars

C3_Witness ==
    /\ pc = "done" /\ rv = STATUS_COMM_ERROR /\ io_fail = "none"
    /\ log # <<>> /\ Last(log).e = "Wrong LRC"
    /\ Len(got) >= 3 /\ got[Len(got) - 1] = CTRL_NAK /\ Last(got) # 22

\* C4: SYNC, NAK, SYNC ^ NAK is consumed without an error and without a
\* frame: the decoder is back at start with the echo flag unchanged, before
\* the echo as well as between echo and response.
C4_GoodNak ==
    [][(pc = "nak" /\ Took /\ New = 22) =>
            /\ pc' = "start"
            /\ echo' = echo
            /\ rv' = rv
            /\ to_read' = to_read
            /\ log' = log
            /\ NoFrame
            /\ SubSeq(got', Len(got') - 2, Len(got')) = <<3, 21, 22>>]_vars

C4_Witness ==
    /\ pc = "start" /\ ~echo
    /\ Len(segs) >= 2 /\ segs[2].k = "nak"
    /\ got = Flatten(SubSeq(segs, 1, 2))

\* the stream with every frame checksum made right
Mend(ss) == [i \in 1 .. Len(ss) |-> IF ss[i].k = "ack" THEN [ss[i] EXCEPT !.ok = TRUE] ELSE ss[i]]

BadChecksums == {i \in AckAt(segs) : ~segs[i].ok}

\* C5: a wrong checksum byte on an ACK frame changes nothing: the status,
\* the frame delivered and the number of bytes consumed are those of the
\* stream with the checksum bytes made right.
C5_ChecksumIsDiagnostic ==
    Ended => Outcome = Decode(Mend(segs), TRUE, 0)

C5_Witness ==
    /\ pc = "done" /\ rv = STATUS_SUCCESS
    /\ Cardinality(BadChecksums) = 2
    /\ Len(SelectSeq(log, LAMBDA r : r.e = "Wrong LRC")) = 2

\* the stream without its slot-change notifications
Unnotified(ss) == SelectSeq(ss, LAMBDA g : g.k # "slot")
Codes(ss) == [i \in 1 .. Len(ss) |-> ss[i].x]
Values(l) == [i \in 1 .. Len(l) |-> l[i].v]

\* C6: a slot-change notification never ends ReadSerial and never alters
\* its result: the call ends with the status and the frame it ends with on
\* the stream without the notifications, having consumed exactly two bytes
\* more for each notification it met, and having reported each movement
\* code once, in order.
C6_SlotChangeIsTransparent ==
    Ended =>
        LET e == Decode(Unnotified(segs), TRUE, 0)
            m == Movements(log)
        IN  /\ Outcome.status = e.status
            /\ Outcome.frame = e.frame
            /\ Outcome.used = e.used + 2 * Len(m)
            /\ Len(m) <= Len(segs) - Len(Unnotified(segs))
            /\ Values(m) = SubSeq(Codes(SelectSeq(segs, LAMBDA g : g.k = "slot")), 1, Len(m))

C6_Witness ==
    /\ pc = "done" /\ rv = STATUS_SUCCESS
    /\ Len(segs) = 3
    /\ segs[2].k = "slot" /\ segs[2].x = 7
    /\ Len(Movements(log)) = 1

\* C7: every byte of 0x80..0xFF read at start is a time request: the byte is
\* consumed, no frame and no error result, the echo flag is unchanged and
\* the scan is at start again; so for any number of them in a row.
C7_TimeRequest ==
    [][(pc = "start" /\ Took /\ New \in 128 .. 255) =>
            /\ pc' = "start"
            /\ echo' = echo
            /\ rv' = rv
            /\ to_read' = to_read
            /\ NoFrame]_vars

C7_Witness ==
    /\ pc = "start" /\ echo
    /\ got = <<255, 128>>

\* C8: a byte read at start that is none of 0x50, 0x03 or >= 0x80, and a
\* byte read after SYNC that is neither ACK nor NAK, end ReadSerial at once
\* with an error status: no frame, no further byte read, no new scan.
C8_UnexpectedByteIsFatal ==
    [][/\ ((pc = "start" /\ Took /\ New \notin {80, 3} /\ New < 128)
                \/ (pc = "sync" /\ Took /\ New \notin {6, 21}))
            => (/\ pc' = "done"
                /\ rv' # STATUS_SUCCESS
                /\ echo' = echo
                /\ NoFrame)
       /\ pc = "done" => UNCHANGED <<pc, got, stream, buffer, buffer_offset, buffer_offset_last>>]_vars

C8_Witness ==
    /\ pc = "done" /\ rv = STATUS_COMM_ERROR /\ io_fail = "none"
    /\ ~echo
    /\ Last(log).e = "Got instead of ACK/NAK"

\* the call ended on a control byte it did not expect
ProtocolFailure ==
    pc = "done" /\ log # <<>> /\ Last(log).e \in {"Got", "Got instead of ACK/NAK"}
\* the call ended on a failure of select() or read()
CommunicationFailure ==
    pc = "done" /\ io_fail # "none"

\* C9 as stated: the status of a read that ended on an unexpected control
\* byte differs from the status of a read whose select() or read() failed,
\* which is STATUS_COMM_ERROR.
C9_Stated ==
    /\ CommunicationFailure => rv = STATUS_COMM_ERROR
    /\ ProtocolFailure => rv # STATUS_COMM_ERROR

\* C9 as the code has it: a failure of select() or read() and an unexpected
\* control byte both end ReadSerial with STATUS_COMM_ERROR, so the status
\* does not tell them apart.
C9_OneStatus ==
    /\ CommunicationFailure => rv = STATUS_COMM_ERROR
    /\ ProtocolFailure => rv = STATUS_COMM_ERROR
    /\ pc = "done" => rv \in {STATUS_SUCCESS, STATUS_COMM_ERROR}

C9_Witness ==
    /\ ProtocolFailure
    /\ io_fail = "none"
    /\ Last(log).e = "Got"
    /\ ~echo

\* the calls WriteSerial let through
Fitting == SelectSeq(wcalls, LAMBDA w : w.length <= GEMPCTWIN_MAXBUF - 3)

\* C10: a WriteSerial of more than GEMPCTWIN_MAXBUF - 3 bytes fails without
\* a write() and leaves the connection as it was; every other call issues
\* exactly one write() of length + 3 bytes, which fit the buffer.
C10_LengthCheck ==
    /\ Len(writes) = Len(Fitting)
    /\ \A i \in 1 .. Len(writes) :
            /\ writes[i].count = Fitting[i].length + 3
            /\ Len(writes[i].buf) = writes[i].count
            /\ writes[i].count <= GEMPCTWIN_MAXBUF
            /\ writes[i].fd = fd[Fitting[i].reader_index]
    /\ \A i \in 1 .. Len(wcalls) :
            wcalls[i].length > GEMPCTWIN_MAXBUF - 3 => wcalls[i].status = STATUS_UNSUCCESSFUL
    /\ InitConn

C10_Witness ==
    /\ Len(wcalls) = 1
    /\ wcalls[1].length = GEMPCTWIN_MAXBUF - 2
    /\ wcalls[1].status = STATUS_UNSUCCESSFUL
    /\ writes = <<>>

\* what a receiver takes as the payload of a packet: all but the two header
\* bytes and the checksum byte
Strip(packet) ==
    [i \in 1 .. (Len(packet) - 3) |-> packet[i + 2]]

RECURSIVE Fold(_, _)
\* the exclusive-OR of the first n bytes of a packet, byte by byte
Fold(packet, n) ==
    IF n = 0 THEN 0 ELSE Xor(XorRange(packet, 1, n - 1), packet[n])

\* C11: the buffer WriteSerial hands to write() for a payload of at most
\* GEMPCTWIN_MAXBUF - 3 bytes is 0x03, 0x06, the payload bytes unchanged and
\* in order, and one byte equal to the exclusive-OR of all bytes before it;
\* dropping the first two bytes and the last gives the payload back.
C11_FrameRoundTrip ==
    \A i \in 1 .. Len(writes) :
        LET b == writes[i].buf
            p == Fitting[i].data
            n == Fitting[i].length
        IN  /\ Len(p) = n /\ n <= GEMPCTWIN_MAXBUF - 3
            /\ Len(b) = n + 3
            /\ b[1] = SYNC /\ b[2] = CTRL_ACK
            /\ \A j \in 1 .. n : b[j + 2] = p[j]
            /\ b[n + 3] = Fold(b, n + 2)
            /\ Strip(b) = p

C11_Witness ==
    /\ Len(writes) = 1
    /\ wcalls[1].length = GEMPCTWIN_MAXBUF - 3
    /\ wcalls[1].status = STATUS_SUCCESS
    /\ wcalls[1].data[1] # wcalls[1].data[2]

\* the bytes read() has returned so far
WasRead == SubSeq(Flatten(segs), 1, Len(Flatten(segs)) - Len(stream))

\* the bytes of the connection's buffer between the two cursors
Unconsumed(i) ==
    SubSeq(buffer[i], buffer_offset[i] + 1, buffer_offset_last[i])

Cursors == <<buffer_offset, buffer_offset_last>>

\* C12: from the entry of a get_bytes call that goes to ReadChunk, through
\* every iteration of ReadChunk's loop, to the return after select() gave 0,
\* no step changes buffer_offset or buffer_offset_last; and that return is
\* a failure of the call.
C12_TimeoutKeepsCursors ==
    [][/\ gb'.status = "running" => Cursors' = Cursors
       /\ (gb.status = "running" /\ gb'.ret = -1 /\ io_fail' = "timeout") =>
            /\ Cursors' = Cursors
            /\ pc' = "done"
            /\ rv' = STATUS_COMM_ERROR
            /\ gb'.status = STATUS_COMM_ERROR]_vars

C12_Witness ==
    /\ pc = "done" /\ io_fail = "timeout" /\ gb.status = STATUS_COMM_ERROR
    /\ buffer_offset[0] = 1 /\ buffer_offset_last[0] = 2
    /\ gb.n = 3 /\ gb.present = 1
    /\ Len(WasRead) = 3

\* an OpenSerialByName call is entered in this step
OpenCalled ==
    pc = "idle" /\ opening = 0 /\ opened' # opened

\* C13: OpenSerialByName with a device name that some slot holds, the
\* caller's own slot included, returns STATUS_UNSUCCESSFUL as "already in
\* use" and changes no descriptor, device name, cursor or buffered byte of
\* any slot; and no two slots ever hold the same device name.
C13_OnePathOneSlot ==
    [][/\ (OpenCalled /\ \E i \in Readers : device[i] = opened'.dev_name) =>
            /\ opened'.status = STATUS_UNSUCCESSFUL
            /\ opened'.why = "in use"
            /\ pc' = "idle" /\ opening' = 0
            /\ connVars' = connVars
            /\ open_fds' = open_fds
       /\ \A i, j \in Readers : (i # j /\ device'[i] # NULL) => device'[i] # device'[j]]_vars

C13_Witness ==
    /\ pc = "idle"
    /\ opened = Opened(1, "/dev/pcsc/1", STATUS_UNSUCCESSFUL, "in use")
    /\ device[0] = "/dev/pcsc/1" /\ fd[0] \in open_fds
    /\ device[1] = NULL
    /\ buffer_offset[0] = buffer_offset_last[0] /\ buffer_offset[0] > 0

\* C14: in every state, whatever calls of OpenSerialByName, CloseSerial,
\* ReadSerial and get_bytes were made and however they ended, each slot has
\* 0 <= buffer_offset <= buffer_offset_last <= GEMPCTWIN_MAXBUF, and no more
\* bytes in its buffer than that.
C14_CursorsInRange ==
    \A i \in Readers :
        /\ 0 <= buffer_offset[i]
        /\ buffer_offset[i] <= buffer_offset_last[i]
        /\ buffer_offset_last[i] <= GEMPCTWIN_MAXBUF
        /\ Len(buffer[i]) <= GEMPCTWIN_MAXBUF

C14_Witness ==
    /\ pc = "done" /\ rv = STATUS_SUCCESS
    /\ gb.n = GEMPCTWIN_MAXBUF /\ gb.ret = GEMPCTWIN_MAXBUF
    /\ buffer_offset[0] = GEMPCTWIN_MAXBUF
    /\ buffer_offset_last[0] = GEMPCTWIN_MAXBUF

\* the bytes read() returns in this step
Incoming == SubSeq(stream, 1, Len(stream) - Len(stream'))

\* the bytes between the cursors of the client's connection, before the step
Present == buffer_offset_last[reader] - buffer_offset[reader]

\* C15: a get_bytes call for more bytes than are between the cursors enters
\* ReadChunk once, with min_length the shortfall and already_read 0; every
\* read() of that ReadChunk call lands its bytes at offset already_read of
\* the connection's buffer, the first at offset 0; when ReadChunk returns,
\* buffer_offset is the shortfall and buffer_offset_last the count
\* returned, and the caller has the bytes that were present followed by the
\* first bytes read, so that the bytes read beyond the shortfall lie between
\* the cursors.  A call for no more bytes than are between the cursors
\* reads nothing: it is served from the buffer and advances buffer_offset.
C15_OneChunkForTheShortfall ==
    [][/\ (pc = "get_bytes" /\ ~reading /\ Present < want) =>
            /\ reading' /\ pc' = pc
            /\ min_length' = want - Present
            /\ already_read' = 0
            /\ gb'.chunks = 1
            /\ Slice(rx', 0, Present) = Unconsumed(reader)
            /\ stream' = stream /\ Cursors' = Cursors
       /\ (pc = "get_bytes" /\ reading /\ pc' = "done" /\ rv' = STATUS_SUCCESS) =>
            /\ gb' = Call(want, Present, 1, want - Present, gb'.ret, STATUS_SUCCESS)
            /\ gb'.ret >= want - Present
            /\ buffer_offset'[reader] = want - Present
            /\ buffer_offset_last'[reader] = gb'.ret
            /\ gb'.ret = already_read + Len(Incoming)
            /\ Slice(rx', 0, want) = Slice(rx, 0, gb.present) \o Slice(buffer'[reader], 0, want - Present)
            /\ Unconsumed(reader)' = Slice(buffer'[reader], want - Present, gb'.ret - (want - Present))
       /\ (pc = "get_bytes" /\ reading /\ stream' # stream) =>
            /\ Slice(buffer'[reader], already_read, Len(Incoming)) = Incoming
            /\ Slice(buffer'[reader], 0, already_read) = Slice(buffer[reader], 0, already_read)
            /\ already_read + Len(Incoming) <= GEMPCTWIN_MAXBUF
            /\ reading' => already_read' = already_read + Len(Incoming)
       /\ (pc = "get_bytes" /\ ~reading /\ Present >= want) =>
            /\ ~reading' /\ pc' = "done" /\ rv' = STATUS_SUCCESS
            /\ gb'.chunks = 0
            /\ stream' = stream /\ buffer' = buffer
            /\ buffer_offset'[reader] = buffer_offset[reader] + want
            /\ buffer_offset_last' = buffer_offset_last
            /\ Slice(rx', 0, want) = SubSeq(Unconsumed(reader), 1, want)]_vars

C15_Witness ==
    /\ pc = "done"
    /\ gb = Call(1, 1, 0, 0, 0, STATUS_SUCCESS)
    /\ buffer_offset[0] = 2 /\ buffer_offset_last[0] = 2
    /\ buffer[0] = <<2, 3>>
    /\ got = <<1, 2, 3>>
    /\ io_fail = "none"


\* p is an initial part of q
IsPrefix(p, q) == Len(p) <= Len(q) /\ SubSeq(q, 1, Len(p)) = p

\* between two calls: no get_bytes call is in progress
BetweenCalls == pc \in {"idle", "done"} /\ ~reading

\* C16: as long as every get_bytes call so far has succeeded, between two
\* calls the bytes delivered to the callers, in the order delivered,
\* followed by the bytes between the two cursors of the connection's
\* buffer, are exactly the bytes read() has returned from the descriptor, in
\* the order read: nothing is lost, duplicated or reordered, whatever the
\* request sizes (0 up to the buffer size) and however read() splits the
\* stream.
C16_StreamFidelity ==
    (BetweenCalls /\ io_fail = "none") =>
        /\ got \o Unconsumed(reader) = WasRead
        /\ IsPrefix(got, WasRead)

C16_Witness ==
    /\ BetweenCalls /\ io_fail = "none"
    /\ got = <<1, 2, 3>>
    /\ Unconsumed(0) = <<4>>
    /\ buffer_offset[0] = 1 /\ buffer_offset_last[0] = 2
    /\ stream = <<>>

\* C17: a get_bytes call that fails (gb'.ret = -1: ReadChunk returned -1
\* after a timeout or an error, with zero or more partial reads before it)
\* leaves the contents of the bytes between the two cursors as they were
\* when the call was entered, and at every moment, failed calls included,
\* the bytes delivered to the callers so far are an initial part of the
\* bytes read from the descriptor: no byte that was read is skipped.
C17_FailureLosesNothing ==
    [][/\ (pc = "get_bytes" /\ ~reading /\ reading') =>
            Slice(rx', 0, Present) = Unconsumed(reader)
       /\ (gb.status = "running" /\ gb'.ret = -1) =>
            Unconsumed(reader)' = Slice(rx, 0, gb.present)
       /\ BetweenCalls => IsPrefix(got, WasRead)]_vars


\* C18: whatever bytes the reader sends, the length ReadSerial passes to
\* get_bytes at each of its labels (1 for a single byte, 5 for the header,
\* (10 + L) - 5 for the rest of the frame) is at least 0 and at most the
\* size of the connection's buffer.
C18_LengthsFitTheBuffer ==
    pc \in Labels => (0 <= Length /\ Length <= GEMPCTWIN_MAXBUF)


\* C19: once OpenSerialByName has returned STATUS_UNSUCCESSFUL from a point
\* after open() succeeded (tcgetattr or tcsetattr failed, or one of the two
\* reader commands failed), the slot it was called for holds no device
\* name, so that the name is free for a later OpenSerialByName.
C19_FailedOpenRegistersNothing ==
    (/\ opening = 0
     /\ opened.status = STATUS_UNSUCCESSFUL
     /\ opened.why \in {"tcgetattr", "tcsetattr", "escape"}) =>
        /\ device[opened.reader_index] = NULL
        /\ ~InUse(opened.dev_name)


\* C20: every iteration of ReadChunk's loop that does not leave the loop
\* strictly increases already_read, also when read() returns 0 and when
\* min_length is more than the buffer holds; and a ReadChunk call that
\* returns a count returns one between min_length and the buffer's size.
\* (already_read is bounded by the buffer's size, so this makes every call
\* return.)
C20_EveryIterationAdvances ==
    [][/\ (reading /\ reading') => already_read' > already_read
       /\ (reading /\ ~reading' /\ gb'.ret # -1) =>
            /\ min_length <= gb'.ret
            /\ gb'.ret <= GEMPCTWIN_MAXBUF]_vars

====
